---- MODULE Spec2Model ----
(***************************************************************************)
(* Nutritional Insights: the data operations of the Flask backend          *)
(* (src/backend/app.py) and of the Azure Functions app                     *)
(* (src/backend-functions/function_app.py) over the All_Diets.csv source.  *)
(*                                                                         *)
(* Representation.                                                         *)
(*  - A macronutrient cell is an integer number of hundredths of a gram    *)
(*    (9004 is 90.04 g); a blank cell is NaN.                              *)
(*  - A Diet_type or query string is a sequence of characters, so that     *)
(*    str.lower() is computed character by character; a blank Diet_type    *)
(*    cell is the empty sequence (pandas reads it as NaN).                 *)
(*  - A mean is kept exact as [sum, n]: the sum and the number of the      *)
(*    non-blank cells (pandas skips NaN); n = 0 is the NaN mean.           *)
(***************************************************************************)
EXTENDS Integers, Sequences, FiniteSets, TLC

\* ---------------------------------------------------------------- bounds
MaxRows == 3        \* rows of the CSV
MaxLimit == 3       \* largest ?limit= value
MaxPage == 4        \* largest ?page= value
MaxPerPage == 2     \* largest ?per_page= value
MaxShortRows == 1   \* rows of a CSV that lacks a required column

\* ----------------------------------------------------- cells and strings
NaN == 0 - 1

Blank == <<>>

IsNaN(x) == x = NaN

Min(a, b) == IF a <= b THEN a ELSE b

Max(a, b) == IF a >= b THEN a ELSE b

LowerChar(c) ==
  CASE c = "K" -> "k"
    [] c = "E" -> "e"
    [] c = "V" -> "v"
    [] OTHER -> c

\* str.lower(): every character lowered, length kept
Lower(s) == [i \in 1..Len(s) |-> LowerChar(s[i])]

\* lexicographic order of two strings by code point (upper case first)
CharRank(c) ==
  CASE c = "E" -> 1
    [] c = "K" -> 2
    [] c = "V" -> 3
    [] c = "e" -> 4
    [] c = "k" -> 5
    [] c = "v" -> 6
    [] OTHER -> 7

RECURSIVE StrLess(_, _)
StrLess(s, t) ==
  IF t = <<>> THEN FALSE
  ELSE IF s = <<>> THEN TRUE
  ELSE IF CharRank(Head(s)) # CharRank(Head(t))
       THEN CharRank(Head(s)) < CharRank(Head(t))
       ELSE StrLess(Tail(s), Tail(t))

\* ----------------------------------------------------------- the source
Row(d, r, p, c, f) ==
  [Diet_type |-> d, Recipe_name |-> r, Protein |-> p, Carbs |-> c, Fat |-> f]

\* the rows a CSV is made of: both letter cases of one diet label, a second
\* label, blank Diet_type, blank Recipe_name and blank Protein(g) cells,
\* equal protein values, and means at and around the two thresholds
SampleRows ==
  { Row(<<"k", "e">>, "a", 10000, 2000, 1000),
    Row(<<"k", "e">>, "b", 8000, 20000, 3002),
    Row(<<"K", "e">>, "c", 9004, 25004, 1000),
    Row(<<"v">>, "d", 10000, 20000, 3002),
    Row(Blank, "e", 8000, 25004, 1000),
    Row(<<"k", "e">>, "", 10000, 25004, 1000),
    Row(<<"v">>, "f", NaN, 2000, NaN) }

Tables == UNION {[1..n -> SampleRows] : n \in 0..MaxRows}

\* the columns every operation expects in the header line
Columns == {"Diet_type", "Recipe_name", "Protein(g)", "Carbs(g)", "Fat(g)"}

\* a row of a CSV whose header lacks column c: the frame has no such cell,
\* which the row record shows as a blank
Without(row, c) ==
  [Diet_type |-> IF c = "Diet_type" THEN Blank ELSE row.Diet_type,
   Recipe_name |-> IF c = "Recipe_name" THEN "" ELSE row.Recipe_name,
   Protein |-> IF c = "Protein(g)" THEN NaN ELSE row.Protein,
   Carbs |-> IF c = "Carbs(g)" THEN NaN ELSE row.Carbs,
   Fat |-> IF c = "Fat(g)" THEN NaN ELSE row.Fat]

ShortTables(c) ==
  UNION {[1..n -> {Without(r, c) : r \in SampleRows}] : n \in 0..MaxShortRows}

\* what CSV_PATH / the blob holds: nothing, a zero-byte file, or a header
\* line (with every required column, or with one of them missing) followed
\* by data rows; a header line alone is the table of no rows
Sources ==
  {[kind |-> "absent", columns |-> {}, rows |-> <<>>],
   [kind |-> "empty", columns |-> {}, rows |-> <<>>]}
    \cup {[kind |-> "csv", columns |-> Columns, rows |-> t] : t \in Tables}
    \cup UNION {{[kind |-> "csv", columns |-> Columns \ {c}, rows |-> t] :
                   t \in ShortTables(c)} : c \in Columns}

\* ------------------------------------------------------ pandas primitives
\* Series.mean(): NaN cells are skipped; the mean of no cells is NaN (n = 0)
RECURSIVE SumOf(_)
SumOf(cells) ==
  IF cells = <<>> THEN 0
  ELSE (IF IsNaN(Head(cells)) THEN 0 ELSE Head(cells)) + SumOf(Tail(cells))

RECURSIVE CountOf(_)
CountOf(cells) ==
  IF cells = <<>> THEN 0
  ELSE (IF IsNaN(Head(cells)) THEN 0 ELSE 1) + CountOf(Tail(cells))

Mean(cells) == [sum |-> SumOf(cells), n |-> CountOf(cells)]

\* >= in place of >
MeanGe(m, grams) == m.n > 0 /\ m.sum >= grams * 100 * m.n

\* mean > threshold (threshold in grams); a NaN mean compares False
MeanGt(m, grams) == m.n > 0 /\ m.sum > grams * 100 * m.n

\* the nearest multiple of unit to num / den, halves to even; none of the
\* sample values produces a half below eight rows
RoundDiv(num, den, unit) ==
  LET d == den * unit
      q == num \div d
      r == num % d
  IN IF 2 * r < d THEN q * unit
     ELSE IF 2 * r > d THEN (q + 1) * unit
     ELSE IF q % 2 = 0 THEN q * unit ELSE (q + 1) * unit

\* round(x, 1) of a cell; round(nan) is nan
Round1(x) == IF IsNaN(x) THEN NaN ELSE RoundDiv(x, 1, 10)

\* round(mean, 2); round(nan) is nan
Round2(m) == IF m.n = 0 THEN NaN ELSE RoundDiv(m.sum, m.n, 1)

\* the column of a frame as a sequence of cells
Col(rows, c) ==
  [i \in 1..Len(rows) |->
     CASE c = "Protein(g)" -> rows[i].Protein
       [] c = "Carbs(g)" -> rows[i].Carbs
       [] OTHER -> rows[i].Fat]

\* the rows of a frame at the given positions, in that order
Take(rows, idx) == [i \in 1..Len(idx) |-> rows[idx[i]]]

\* the positions of S in increasing order
RECURSIVE Ascending(_)
Ascending(S) ==
  IF S = {} THEN <<>>
  ELSE LET i == CHOOSE k \in S : \A j \in S : k <= j
       IN <<i>> \o Ascending(S \ {i})

\* boolean-mask selection df[mask]: the rows at the positions S whose mask
\* is True, in row order
Select(rows, S) == Take(rows, Ascending(S))

\* DataFrame.head(n): the first n rows; for n < 0 all but the last -n rows
head(rows, n) ==
  IF n >= 0 THEN SubSeq(rows, 1, Min(n, Len(rows)))
  ELSE SubSeq(rows, 1, Len(rows) + n)

\* a Python slice bound: negative counts from the end, then clamped
SliceBound(i, len) == IF i < 0 THEN Max(i + len, 0) ELSE Min(i, len)

\* a stop bound taken as inclusive
iloc_stop_inclusive(rows, start, stop) ==
  SubSeq(rows, SliceBound(start, Len(rows)) + 1,
         Min(SliceBound(stop, Len(rows)) + 1, Len(rows)))

\* DataFrame.iloc[start:stop]
iloc(rows, start, stop) ==
  SubSeq(rows, SliceBound(start, Len(rows)) + 1, SliceBound(stop, Len(rows)))

\* Python's a // b (floor division), b # 0
FloorDiv(a, b) == IF b > 0 THEN a \div b ELSE (0 - a) \div (0 - b)

\* keep='last' in place of keep='first'
FirstLargest_keep_last(rows, S) ==
  CHOOSE i \in S :
    \A j \in S : \/ rows[j].Protein < rows[i].Protein
                 \/ (rows[j].Protein = rows[i].Protein /\ i >= j)

\* the position of the largest protein among the positions in S, the first
\* such position on equal values (keep='first')
FirstLargest(rows, S) ==
  CHOOSE i \in S :
    \A j \in S : \/ rows[j].Protein < rows[i].Protein
                 \/ (rows[j].Protein = rows[i].Protein /\ i <= j)

RECURSIVE SortedDesc(_, _)
SortedDesc(rows, S) ==
  IF S = {} THEN <<>>
  ELSE LET i == FirstLargest(rows, S)
       IN <<i>> \o SortedDesc(rows, S \ {i})

\* DataFrame.nlargest(n, 'Protein(g)'): nothing for n <= 0; else the rows
\* with a protein value by descending protein, then the rows with a blank
\* protein in row order, cut to n rows
nlargest(rows, n) ==
  IF n <= 0 THEN <<>>
  ELSE LET valid == {i \in 1..Len(rows) : ~IsNaN(rows[i].Protein)}
           order == SortedDesc(rows, valid)
                      \o Ascending((1..Len(rows)) \ valid)
       IN Take(rows, SubSeq(order, 1, Min(n, Len(order))))

\* groupby('Diet_type'): the distinct non-blank keys (dropna), sorted
GroupKeys(rows) ==
  {rows[i].Diet_type : i \in 1..Len(rows)} \ {Blank}

RECURSIVE SortedKeys(_)
SortedKeys(K) ==
  IF K = {} THEN <<>>
  ELSE LET k == CHOOSE x \in K : \A y \in K \ {x} : StrLess(x, y)
       IN <<k>> \o SortedKeys(K \ {k})

\* 'count' of Recipe_name: the non-blank cells
RECURSIVE CountNames(_)
CountNames(rows) ==
  IF rows = <<>> THEN 0
  ELSE (IF Head(rows).Recipe_name = "" THEN 0 ELSE 1) + CountNames(Tail(rows))

\* ------------------------------------------------------------ aggregation
\* df.fillna(df.mean(numeric_only=True)) followed by a mean over the rows
\* grp of df: a blank cell of column c counts as the mean of the cells of c
\* that have a value; a column without any value is left blank
mean_after_fillna(rows, grp, c) ==
  LET column == Mean(Col(rows, c))
      group == Mean(Col(grp, c))
      filled == Len(grp) - group.n
  IN IF column.n = 0 THEN group
     ELSE [sum |-> group.sum * column.n + filled * column.sum,
           n |-> column.n * Len(grp)]

\* the distinct non-blank keys in the order in which the rows introduce them
RECURSIVE FirstAppearance(_)
FirstAppearance(rows) ==
  IF rows = <<>> THEN <<>>
  ELSE LET rest == FirstAppearance(SubSeq(rows, 1, Len(rows) - 1))
           k == rows[Len(rows)].Diet_type
       IN IF k = Blank \/ (\E i \in 1..Len(rest) : rest[i] = k)
          THEN rest
          ELSE Append(rest, k)

\* groupby(..., sort=False): groups in order of first appearance
calculate_diet_summary_unsorted(rows) ==
  LET keys == FirstAppearance(rows)
      InGroup(k) == Select(rows, {i \in 1..Len(rows) : rows[i].Diet_type = k})
  IN [g \in 1..Len(keys) |->
        LET grp == InGroup(keys[g])
        IN [Diet_type |-> keys[g],
            Protein |-> Mean(Col(grp, "Protein(g)")),
            Carbs |-> Mean(Col(grp, "Carbs(g)")),
            Fat |-> Mean(Col(grp, "Fat(g)")),
            recipes |-> CountNames(grp)]]

calculate_diet_summary(rows) ==
  LET keys == SortedKeys(GroupKeys(rows))
      InGroup(k) == Select(rows, {i \in 1..Len(rows) : rows[i].Diet_type = k})
  IN [g \in 1..Len(keys) |->
        LET grp == InGroup(keys[g])
        IN [Diet_type |-> keys[g],
            Protein |-> Mean(Col(grp, "Protein(g)")),
            Carbs |-> Mean(Col(grp, "Carbs(g)")),
            Fat |-> Mean(Col(grp, "Fat(g)")),
            recipes |-> CountNames(grp)]]

get_top_protein_recipes(rows, limit) ==
  LET top == nlargest(rows, limit)
  IN [i \in 1..Len(top) |->
        [recipe |-> top[i].Recipe_name,
         protein |-> Round1(top[i].Protein),
         carbs |-> Round1(top[i].Carbs)]]

\* ------------------------------------------------------- query parameters
DefaultTopLimit == 5

DefaultRecipesLimit == 100

DefaultPage == 1

DefaultPerPage == 50

ProteinThreshold == 90

CarbThreshold == 200

Absent == [tag |-> "absent", val |-> 0]

Bad == [tag |-> "bad", val |-> 0]

Num(n) == [tag |-> "int", val |-> n]

NoFilter == [tag |-> "absent", val |-> <<>>]

Str(s) == [tag |-> "str", val |-> s]

LimitArgs == {Absent, Bad} \cup {Num(n) : n \in (0 - 1)..MaxLimit}

PageArgs == {Absent, Bad} \cup {Num(n) : n \in (0 - 1)..MaxPage}

PerPageArgs == {Absent, Bad} \cup {Num(n) : n \in (0 - 1)..MaxPerPage}

FilterStrings ==
  {<<>>, <<"k", "e">>, <<"K", "e">>, <<"K", "E">>, <<"k">>, <<"v">>}

DietArgs == {NoFilter} \cup {Str(f) : f \in FilterStrings}

\* werkzeug's args.get(key, default, type=int): the default when the key is
\* absent and also when int() raises ValueError
args_get(arg, default) == IF arg.tag = "int" THEN arg.val ELSE default

\* ------------------------------------------------------------- responses
NoResponse == [kind |-> "none"]

NoRequest == [op |-> "none"]

Req(app, op, diet, limit, page, per_page) ==
  [app |-> app, op |-> op, diet_type |-> diet, limit |-> limit,
   page |-> page, per_page |-> per_page]

\* jsonify({...}) / HttpResponse(json.dumps({...}), status_code=200)
Success(body) == [kind |-> "success", status |-> 200, body |-> body]

\* {'error': message} with status 500
Error(msg) == [kind |-> "error", status |-> 500, body |-> [error |-> msg]]

\* an exception that leaves a Flask view: the framework's own 500 page
Unhandled(exc) == [kind |-> "unhandled", status |-> 500, body |-> [exception |-> exc]]

\* what load_nutrition_data returns: a DataFrame or None
None == [ok |-> FALSE, rows |-> <<>>]

Frame(rows) == [ok |-> TRUE, rows |-> rows]

VARIABLES source, request, response, snapshot, run, lambda_status

vars == <<source, request, response, snapshot, run, lambda_status>>

\* the state of the HTTP backends, and the state of the offline scripts
api == <<request, response>>

offline == <<snapshot, run, lambda_status>>

\* simulated_nosql/nutrition_results.json: not there, or a JSON document
\* that may or may not carry the average_macros field
NoSnapshot == [kind |-> "absent", has_average_macros |-> FALSE,
               average_macros |-> <<>>]

SnapshotWithoutField == [kind |-> "json", has_average_macros |-> FALSE,
                         average_macros |-> <<>>]

Snapshot(result) == [kind |-> "json", has_average_macros |-> TRUE,
                     average_macros |-> result]

\* data_analysis.main before its first statement
NotStarted ==
  [pc |-> "start", csv |-> "unread", json_consulted |-> FALSE,
   recipe_level_available |-> TRUE,
   top_protein |-> [is_none |-> TRUE, rows |-> {}],
   avg_macros |-> <<>>, plots |-> {}, error |-> "none"]

\* an empty DataFrame in place of None
flask_load_empty_frame_on_error == Frame(source.rows)

\* load_nutrition_data() of backend/app.py: None when read_csv raises
\* FileNotFoundError or EmptyDataError
flask_load_nutrition_data ==
  IF source.kind = "csv" THEN Frame(source.rows) ELSE None

\* load_nutrition_data() of function_app.py: None on any exception
func_load_nutrition_data ==
  IF source.kind = "csv" THEN Frame(source.rows) ELSE None


Init ==
  /\ source \in Sources
  /\ request = NoRequest
  /\ response = NoResponse
  /\ snapshot = NoSnapshot
  /\ run = NotStarted
  /\ lambda_status = "none"

\* the server is between requests
Idle == response = NoResponse

\* df[c] for a column the header lacks raises KeyError
KeyError(needed) == ~(needed \subseteq source.columns)

\* row.get('Recipe_name', 'Unknown') and row.get('Diet_type', 'N/A'): the
\* default stands in when the frame has no such column (a blank cell of an
\* existing column stays blank)
row_get(rows) ==
  [i \in 1..Len(rows) |->
     [rows[i] EXCEPT
        !.Recipe_name = IF "Recipe_name" \in source.columns THEN @
                        ELSE "Unknown",
        !.Diet_type = IF "Diet_type" \in source.columns THEN @
                      ELSE <<"N", "/", "A">>]]

Macros == {"Protein(g)", "Carbs(g)", "Fat(g)"}

TopColumns == {"Recipe_name", "Protein(g)", "Carbs(g)"}

\* ------------------------------------------------------- response bodies
summary_body(rows) ==
  LET diet_summary == calculate_diet_summary(rows)
  IN [total_records |-> Len(rows),
      diet_types |-> Len(diet_summary),
      data |-> diet_summary]

top_protein_body(rows, limit) ==
  LET top_recipes == get_top_protein_recipes(rows, limit)
  IN [count |-> Len(top_recipes), data |-> top_recipes]

\* `if diet_type:` - a missing or empty query value does not filter
Truthy(diet) == diet.tag = "str" /\ diet.val # <<>>

\* Series.str raises AttributeError unless the column holds strings: a
\* Diet_type column whose every cell is blank is read as float64
StrAccessorFails(rows) ==
  Len(rows) > 0 /\ \A i \in 1..Len(rows) : rows[i].Diet_type = Blank

\* the comparison without str.lower()
filter_diet_type_case_sensitive(rows, diet) ==
  IF Truthy(diet)
  THEN Select(rows, {i \in 1..Len(rows) : rows[i].Diet_type = diet.val})
  ELSE rows

\* df[df['Diet_type'].str.lower() == diet_type.lower()]; a blank cell stays
\* NaN under str.lower() and compares unequal
filter_diet_type(rows, diet) ==
  IF Truthy(diet)
  THEN Select(rows, {i \in 1..Len(rows) :
                       /\ rows[i].Diet_type # Blank
                       /\ Lower(rows[i].Diet_type) = Lower(diet.val)})
  ELSE rows

recipes_statistics(rows) ==
  [total_recipes |-> Len(rows),
   avg_protein |-> Round2(Mean(Col(rows, "Protein(g)"))),
   avg_carbs |-> Round2(Mean(Col(rows, "Carbs(g)"))),
   avg_fat |-> Round2(Mean(Col(rows, "Fat(g)")))]

recipes_rows(rows, limit) ==
  LET recipes_df == head(rows, limit)
  IN [i \in 1..Len(recipes_df) |->
        [Recipe_name |-> recipes_df[i].Recipe_name,
         Diet_type |-> recipes_df[i].Diet_type,
         Protein |-> Round1(recipes_df[i].Protein),
         Carbs |-> Round1(recipes_df[i].Carbs),
         Fat |-> Round1(recipes_df[i].Fat)]]

recipes_body(rows, diet, limit) ==
  LET df == filter_diet_type(rows, diet)
      recipes == recipes_rows(df, limit)
  IN [count |-> Len(recipes),
      recipes |-> recipes,
      statistics |-> recipes_statistics(df)]

\* the recipes body of a frame that may lack the two display columns
recipes_body_of_frame(rows, diet, limit) ==
  LET body == recipes_body(rows, diet, limit)
  IN [body EXCEPT !.recipes = row_get(@)]

\* [d['Diet_type'] for d in summary if d['Protein'] > 90]
high_protein_of(summary) ==
  Select(summary, {i \in 1..Len(summary) :
                     MeanGt(summary[i].Protein, ProteinThreshold)})

\* high_carb tested only for the diet types that are not high_protein
high_carb_of_excluding_high_protein(summary) ==
  Select(summary, {i \in 1..Len(summary) :
                     /\ MeanGt(summary[i].Carbs, CarbThreshold)
                     /\ ~MeanGt(summary[i].Protein, ProteinThreshold)})

\* [d['Diet_type'] for d in summary if d['Carbs'] > 200]
high_carb_of(summary) ==
  Select(summary, {i \in 1..Len(summary) :
                     MeanGt(summary[i].Carbs, CarbThreshold)})

\* the diet types of a list of summary records
DietTypesOf(summary) == [i \in 1..Len(summary) |-> summary[i].Diet_type]

Elems(seq) == {seq[i] : i \in 1..Len(seq)}

\* balanced as the complement of high_protein alone
balanced_of_ignores_high_carb(summary, high_protein, high_carb) ==
  Select(summary, {i \in 1..Len(summary) :
                     summary[i].Diet_type \notin Elems(high_protein)})

\* the summary records whose diet type is in neither list
balanced_of(summary, high_protein, high_carb) ==
  Select(summary, {i \in 1..Len(summary) :
                     /\ summary[i].Diet_type \notin Elems(high_protein)
                     /\ summary[i].Diet_type \notin Elems(high_carb)})

clusters_body(rows) ==
  LET summary == calculate_diet_summary(rows)
      high_protein == DietTypesOf(high_protein_of(summary))
      high_carb == DietTypesOf(high_carb_of(summary))
      balanced == DietTypesOf(balanced_of(summary, high_protein, high_carb))
  IN [clusters_identified |-> 3,
      high_protein_cluster |-> high_protein,
      high_carb_cluster |-> high_carb,
      balanced_cluster |-> balanced]

\* total_pages rounded down
all_data_body_floor_pages(rows, page, per_page) ==
  LET start_idx == (page - 1) * per_page
      end_idx == start_idx + per_page
      total_records == Len(rows)
      total_pages == FloorDiv(total_records, per_page)
  IN [page |-> page,
      per_page |-> per_page,
      total_records |-> total_records,
      total_pages |-> total_pages,
      data |-> iloc(rows, start_idx, end_idx)]

\* per_page # 0
all_data_body(rows, page, per_page) ==
  LET start_idx == (page - 1) * per_page
      end_idx == start_idx + per_page
      total_records == Len(rows)
      total_pages == FloorDiv(total_records + per_page - 1, per_page)
  IN [page |-> page,
      per_page |-> per_page,
      total_records |-> total_records,
      total_pages |-> total_pages,
      data |-> iloc(rows, start_idx, end_idx)]

\* ---------------------------------------------- backend/app.py (Flask)
flask_get_nutrition_summary ==
  /\ Idle
  /\ request' = Req("flask", "summary", NoFilter, Absent, Absent, Absent)
  /\ LET df == flask_load_nutrition_data
     IN response' = IF ~df.ok THEN Error("Failed to load data")
                    ELSE IF KeyError(Columns) THEN Unhandled("KeyError")
                    ELSE Success(summary_body(df.rows))
  /\ UNCHANGED <<source, offline>>

flask_get_top_protein ==
  \E arg \in LimitArgs :
    /\ Idle
    /\ request' = Req("flask", "top-protein", NoFilter, arg, Absent, Absent)
    /\ LET limit == args_get(arg, DefaultTopLimit)
           df == flask_load_nutrition_data
       IN response' = IF ~df.ok THEN Error("Failed to load data")
                      ELSE IF KeyError(TopColumns) THEN Unhandled("KeyError")
                      ELSE Success(top_protein_body(df.rows, limit))
    /\ UNCHANGED <<source, offline>>

flask_get_recipes ==
  \E diet \in DietArgs, arg \in LimitArgs :
    /\ Idle
    /\ request' = Req("flask", "recipes", diet, arg, Absent, Absent)
    /\ LET df == flask_load_nutrition_data
           limit == args_get(arg, DefaultRecipesLimit)
       IN response' =
            IF ~df.ok THEN Error("Failed to load data")
            ELSE IF Truthy(diet) /\ KeyError({"Diet_type"})
                 THEN Unhandled("KeyError")
            ELSE IF Truthy(diet) /\ StrAccessorFails(df.rows)
                 THEN Unhandled("AttributeError")
            ELSE IF KeyError(Macros) THEN Unhandled("KeyError")
            ELSE Success(recipes_body_of_frame(df.rows, diet, limit))
    /\ UNCHANGED <<source, offline>>

flask_get_clusters ==
  /\ Idle
  /\ request' = Req("flask", "clusters", NoFilter, Absent, Absent, Absent)
  /\ LET df == flask_load_nutrition_data
     IN response' = IF ~df.ok THEN Error("Failed to load data")
                    ELSE IF KeyError(Columns) THEN Unhandled("KeyError")
                    ELSE Success(clusters_body(df.rows))
  /\ UNCHANGED <<source, offline>>

flask_get_all_data ==
  \E page_arg \in PageArgs, per_page_arg \in PerPageArgs :
    /\ Idle
    /\ request' = Req("flask", "all", NoFilter, Absent, page_arg, per_page_arg)
    /\ LET df == flask_load_nutrition_data
           page == args_get(page_arg, DefaultPage)
           per_page == args_get(per_page_arg, DefaultPerPage)
       IN response' =
            IF ~df.ok THEN Error("Failed to load data")
            ELSE IF per_page = 0 THEN Unhandled("ZeroDivisionError")
                 ELSE Success(all_data_body(df.rows, page, per_page))
    /\ UNCHANGED <<source, offline>>

\* ------------------------- backend-functions/function_app.py (Functions)
func_get_nutrition_summary ==
  /\ Idle
  /\ request' = Req("func", "summary", NoFilter, Absent, Absent, Absent)
  /\ LET df == func_load_nutrition_data
     IN response' = IF ~df.ok
                    THEN Error("Failed to load data from blob storage")
                    ELSE IF KeyError(Columns) THEN Error("KeyError")
                    ELSE Success(summary_body(df.rows))
  /\ UNCHANGED <<source, offline>>

\* int(req.params.get('limit', 5)) runs before the load, inside the try
func_get_top_protein ==
  \E arg \in LimitArgs :
    /\ Idle
    /\ request' = Req("func", "top-protein", NoFilter, arg, Absent, Absent)
    /\ LET limit == IF arg.tag = "absent" THEN DefaultTopLimit ELSE arg.val
           df == func_load_nutrition_data
       IN response' = IF arg.tag = "bad" THEN Error("ValueError")
                      ELSE IF ~df.ok THEN Error("Failed to load data")
                      ELSE IF KeyError(TopColumns) THEN Error("KeyError")
                      ELSE Success(top_protein_body(df.rows, limit))
    /\ UNCHANGED <<source, offline>>

\* the filter runs before int(req.params.get('limit', 100)), both in the try
func_get_recipes ==
  \E diet \in DietArgs, arg \in LimitArgs :
    /\ Idle
    /\ request' = Req("func", "recipes", diet, arg, Absent, Absent)
    /\ LET df == func_load_nutrition_data
           limit == IF arg.tag = "absent" THEN DefaultRecipesLimit ELSE arg.val
       IN response' =
            IF ~df.ok THEN Error("Failed to load data")
            ELSE IF Truthy(diet) /\ KeyError({"Diet_type"})
                 THEN Error("KeyError")
            ELSE IF Truthy(diet) /\ StrAccessorFails(df.rows)
                 THEN Error("AttributeError")
            ELSE IF arg.tag = "bad" THEN Error("ValueError")
            ELSE IF KeyError(Macros) THEN Error("KeyError")
            ELSE Success(recipes_body_of_frame(df.rows, diet, limit))
    /\ UNCHANGED <<source, offline>>

func_get_clusters ==
  /\ Idle
  /\ request' = Req("func", "clusters", NoFilter, Absent, Absent, Absent)
  /\ LET df == func_load_nutrition_data
     IN response' = IF ~df.ok THEN Error("Failed to load data")
                    ELSE IF KeyError(Columns) THEN Error("KeyError")
                    ELSE Success(clusters_body(df.rows))
  /\ UNCHANGED <<source, offline>>

\* the response goes out; nothing is kept between requests
reply ==
  /\ ~Idle
  /\ request' = NoRequest
  /\ response' = NoResponse
  /\ UNCHANGED <<source, offline>>

Next ==
  \/ flask_get_nutrition_summary
  \/ flask_get_top_protein
  \/ flask_get_recipes
  \/ flask_get_clusters
  \/ flask_get_all_data
  \/ func_get_nutrition_summary
  \/ func_get_top_protein
  \/ func_get_recipes
  \/ func_get_clusters
  \/ reply

Spec == Init /\ [][Next]_vars

\* ---------------------------------------------------------- type sanity
TypeOK ==
  /\ source \in Sources
  /\ response.kind \in {"none", "success", "error", "unhandled"}

\* ================================================== the offline scripts
\* The scripts work on files: the dataset All_Diets.csv (the blob the
\* processing function downloads, and the --csv path of the analysis, which
\* holds a copy of the dataset or nothing) and the persisted snapshot.
\* Cuisine_type is outside the modelled columns and is taken to be filled.

\* a macronutrient value read back from JSON, as a mean of one value
Exactly(v) == IF IsNaN(v) THEN [sum |-> 0, n |-> 0] ELSE [sum |-> v, n |-> 1]

\* ------------------------------------------------- lambda_function.py
LambdaColumns == {"Diet_type"} \cup Macros

\* groupby('Diet_type')[[...]].mean().round(2), as to_dict('records')
lambda_avg_macros(rows) ==
  LET keys == SortedKeys(GroupKeys(rows))
      InGroup(k) == Select(rows, {i \in 1..Len(rows) : rows[i].Diet_type = k})
  IN [g \in 1..Len(keys) |->
        LET grp == InGroup(keys[g])
        IN [Diet_type |-> keys[g],
            Protein |-> Round2(Mean(Col(grp, "Protein(g)"))),
            Carbs |-> Round2(Mean(Col(grp, "Carbs(g)"))),
            Fat |-> Round2(Mean(Col(grp, "Fat(g)")))]]

\* one execution of the processing function: any exception (blob not
\* found, EmptyDataError, KeyError) is caught and nothing is written
process_nutritional_data_from_azurite ==
  /\ lambda_status = "none"
  /\ IF source.kind = "csv" /\ LambdaColumns \subseteq source.columns
     THEN /\ snapshot' = Snapshot(lambda_avg_macros(source.rows))
          /\ lambda_status' = "success"
     ELSE /\ lambda_status' = "error"
          /\ UNCHANGED snapshot
  /\ UNCHANGED <<source, api, run>>

\* --------------------------------------------------- data_analysis.py
TopPerDiet == 5

\* what is at the --csv path: a copy of the dataset, or no file
CsvFiles == {source, [kind |-> "absent", columns |-> {}, rows |-> <<>>]}

\* groupby("Diet_type")[[...]].mean() of the frame after fillna
main_avg_macros(rows) ==
  LET keys == SortedKeys(GroupKeys(rows))
      InGroup(k) == Select(rows, {i \in 1..Len(rows) : rows[i].Diet_type = k})
  IN [g \in 1..Len(keys) |->
        LET grp == InGroup(keys[g])
        IN [Diet_type |-> keys[g],
            Protein |-> mean_after_fillna(rows, grp, "Protein(g)"),
            Carbs |-> mean_after_fillna(rows, grp, "Carbs(g)"),
            Fat |-> mean_after_fillna(rows, grp, "Fat(g)")]]

\* sort_values("Protein(g)", ascending=False).groupby("Diet_type").head(5),
\* as the positions of the rows it keeps; protein is compared after fillna
top_protein_of(rows) ==
  LET column == Mean(Col(rows, "Protein(g)"))
      key(i) == IF IsNaN(rows[i].Protein) THEN column.sum
                ELSE rows[i].Protein * column.n
      ahead(i) == {j \in 1..Len(rows) :
                     /\ rows[j].Diet_type = rows[i].Diet_type
                     /\ (key(j) > key(i) \/ (key(j) = key(i) /\ j < i))}
  IN {i \in 1..Len(rows) :
        rows[i].Diet_type # Blank /\ Cardinality(ahead(i)) < TopPerDiet}

\* the exceptions the statements of the try block can raise on a file
\* ("none": they complete). idxmax of a column without any value raises
\* or returns NaN, depending on the pandas release.
try_block_exceptions(csv) ==
  IF csv.kind = "absent" THEN {"FileNotFoundError"}
  ELSE IF csv.kind = "empty" THEN {"EmptyDataError"}
  ELSE IF ~(Columns \subseteq csv.columns) THEN {"KeyError"}
  ELSE IF GroupKeys(csv.rows) = {} THEN {"ValueError"}
  ELSE IF Mean(Col(csv.rows, "Protein(g)")).n = 0 THEN {"ValueError", "none"}
  ELSE {"none"}

\* except Exception: every exception of the try block takes the fallback
Caught_any_exception(exc) == exc # "none"

\* except FileNotFoundError
Caught(exc) == exc = "FileNotFoundError"

\* lines 84-136: the try block, up to the exception that leaves it
main_try ==
  /\ run.pc = "start"
  /\ \E csv \in CsvFiles :
       \E exc \in try_block_exceptions(csv) :
         LET opened == [run EXCEPT !.csv = IF csv.kind = "absent"
                                          THEN "missing" ELSE "found"]
         IN run' = IF exc = "none"
                   THEN [opened EXCEPT
                           !.pc = "bar_chart",
                           !.avg_macros = main_avg_macros(csv.rows),
                           !.top_protein = [is_none |-> FALSE,
                                            rows |-> top_protein_of(csv.rows)]]
                   ELSE IF Caught(exc)
                   THEN [opened EXCEPT !.pc = "except"]
                   ELSE [opened EXCEPT !.pc = "fatal", !.error = exc]
  /\ UNCHANGED <<source, api, snapshot, lambda_status>>

\* the value of load_avg_from_json, or the exception it raises
load_avg_from_json(json) ==
  IF json.kind = "absent"
  THEN [exc |-> "FileNotFoundError", avg_macros |-> <<>>]
  ELSE IF ~json.has_average_macros \/ json.average_macros = <<>>
  THEN [exc |-> "ValueError", avg_macros |-> <<>>]
  ELSE [exc |-> "none",
        avg_macros |->
          [g \in 1..Len(json.average_macros) |->
             [Diet_type |-> json.average_macros[g].Diet_type,
              Protein |-> Exactly(json.average_macros[g].Protein),
              Carbs |-> Exactly(json.average_macros[g].Carbs),
              Fat |-> Exactly(json.average_macros[g].Fat)]]]

\* lines 138-145: the fallback to the persisted snapshot
main_except ==
  /\ run.pc = "except"
  /\ LET loaded == load_avg_from_json(snapshot)
         fallback == [run EXCEPT !.recipe_level_available = FALSE,
                                 !.json_consulted = TRUE]
     IN run' = IF loaded.exc # "none"
               THEN [fallback EXCEPT !.pc = "fatal", !.error = loaded.exc]
               ELSE [fallback EXCEPT !.pc = "bar_chart",
                                     !.avg_macros = loaded.avg_macros]
  /\ UNCHANGED <<source, api, snapshot, lambda_status>>

\* lines 149-157
bar_chart ==
  /\ run.pc = "bar_chart"
  /\ run' = [run EXCEPT !.pc = "heatmap",
                        !.plots = @ \cup {"avg_protein_by_diet_type.png"}]
  /\ UNCHANGED <<source, api, snapshot, lambda_status>>

\* lines 160-166
heatmap ==
  /\ run.pc = "heatmap"
  /\ run' = [run EXCEPT !.pc = "scatter",
                        !.plots = @ \cup {"avg_macros_heatmap.png"}]
  /\ UNCHANGED <<source, api, snapshot, lambda_status>>

\* lines 169-186: the scatter plot, or the message that it is skipped
scatter_plot ==
  /\ run.pc = "scatter"
  /\ run' = IF run.recipe_level_available /\ ~run.top_protein.is_none
            THEN [run EXCEPT !.pc = "done",
                             !.plots = @ \cup {"top_protein_recipes_scatter.png"}]
            ELSE [run EXCEPT !.pc = "done"]
  /\ UNCHANGED <<source, api, snapshot, lambda_status>>

OfflineInit ==
  /\ source \in Sources
  /\ request = NoRequest
  /\ response = NoResponse
  /\ snapshot \in {NoSnapshot, SnapshotWithoutField}
  /\ run = NotStarted
  /\ lambda_status = "none"

OfflineNext ==
  \/ process_nutritional_data_from_azurite
  \/ main_try
  \/ main_except
  \/ bar_chart
  \/ heatmap
  \/ scatter_plot

OfflineSpec == OfflineInit /\ [][OfflineNext]_vars

\* ======================================================== properties
\* shorthands over the request being answered
Answered(op) == response.kind = "success" /\ request.op = op

Table == source.rows

\* the integer a query parameter stands for in a successful response
Given(arg, default) == IF arg.tag = "int" THEN arg.val ELSE default

SumRecipes(data) == SumOf([i \in 1..Len(data) |-> data[i].recipes])

\* ---------------------------------------------------------------- C1
\* C1: for every loaded table, blank Diet_type or Recipe_name cells
\* included, the per-diet-type 'recipes' counts of the summary add up to
\* the 'total_records' of the same response.
C1_RecipesSumToTotalRecords ==
  Answered("summary") =>
    SumRecipes(response.body.data) = response.body.total_records

\* ---------------------------------------------------------------- C2
\* row j comes before row i when the table is stably sorted by descending
\* protein, rows with a blank protein after all others
Before(rows, j, i) ==
  LET pj == rows[j].Protein
      pi == rows[i].Protein
  IN IF IsNaN(pj) THEN IsNaN(pi) /\ j < i
     ELSE \/ IsNaN(pi)
          \/ pj > pi
          \/ (pj = pi /\ j < i)

\* the position of the row that is r-th in that order
PosOfRank(rows, r) ==
  CHOOSE i \in 1..Len(rows) :
    Cardinality({j \in 1..Len(rows) : Before(rows, j, i)}) = r - 1

TopEntry(row) ==
  [recipe |-> row.Recipe_name,
   protein |-> IF IsNaN(row.Protein) THEN NaN
               ELSE 10 * ((row.Protein + 5) \div 10),
   carbs |-> IF IsNaN(row.Carbs) THEN NaN
             ELSE 10 * ((row.Carbs + 5) \div 10)]

\* C2: top-protein returns exactly the first min(limit, total_records)
\* records of the whole table stably sorted by descending protein: taken
\* across all diet types, non-increasing in protein, equal proteins in
\* original row order (no records when limit <= 0).
C2_TopProteinIsStableTopN ==
  Answered("top-protein") =>
    LET limit == Given(request.limit, DefaultTopLimit)
        k == Min(limit, Len(Table))
        data == response.body.data
    IN /\ data = [r \in 1..k |-> TopEntry(Table[PosOfRank(Table, r)])]
       /\ response.body.count = Len(data)
       /\ limit >= 0 => Len(data) = k
       /\ \A r \in 1..(Len(data) - 1) :
            (~IsNaN(data[r].protein) /\ ~IsNaN(data[r + 1].protein))
              => data[r].protein >= data[r + 1].protein

\* a limit below the row count, two rows of different diet types with the
\* same protein ahead of a smaller one that comes first in the table
C2_Witness ==
  /\ Answered("top-protein")
  /\ request.limit = Num(2)
  /\ Len(Table) = 3
  /\ Table[1].Protein = 8000
  /\ Table[2].Protein = 10000
  /\ Table[3].Protein = 10000
  /\ Table[2].Diet_type # Table[3].Diet_type
  /\ response.body.data[1].recipe = Table[2].Recipe_name
  /\ response.body.data[2].recipe = Table[3].Recipe_name
  /\ Table[2].Recipe_name # Table[3].Recipe_name

\* ---------------------------------------------------------------- C3
\* the rows of pages first..last of a paginated read, one after the other
RECURSIVE ConcatPages(_, _, _, _)
ConcatPages(rows, per_page, first, last) ==
  IF first > last THEN <<>>
  ELSE all_data_body(rows, first, per_page).data
         \o ConcatPages(rows, per_page, first + 1, last)

\* C3: for page_size >= 1 each page is the contiguous window
\* [(page-1)*page_size, page*page_size) of the table, and pages
\* 1..total_pages one after the other give exactly the full table: every
\* row once, none duplicated or skipped, in row order.
C3_PagesPartitionTable ==
  (Answered("all") /\ response.body.per_page >= 1 /\ response.body.page >= 1) =>
    LET page == response.body.page
        per_page == response.body.per_page
        first == (page - 1) * per_page
        data == response.body.data
    IN /\ Len(data) = Max(0, Min(per_page, Len(Table) - first))
       /\ \A i \in 1..Len(data) : data[i] = Table[first + i]
       /\ ConcatPages(Table, per_page, 1, response.body.total_pages) = Table

\* the last, partial page of a three-row table read two rows at a time
C3_Witness ==
  /\ Answered("all")
  /\ response.body.per_page = 2
  /\ response.body.page = 2
  /\ response.body.total_pages = 2
  /\ Len(Table) = 3
  /\ response.body.data = <<Table[3]>>
  /\ Table[3] # Table[1]

\* ---------------------------------------------------------------- C4
\* ceil(n / d) for d >= 1: the least t with t * d >= n
Ceil(n, d) == CHOOSE t \in 0..n : t * d >= n /\ \A u \in 0..(t - 1) : u * d < n

\* C4: for page_size >= 1 and a page_number beyond total_pages the
\* paginated operation succeeds with an empty row slice and still reports
\* total_records = the table's row count and
\* total_pages = ceil(total_records / page_size).
C4_PageBeyondLastIsEmpty ==
  LET page == Given(request.page, DefaultPage)
      per_page == Given(request.per_page, DefaultPerPage)
  IN (/\ ~Idle
      /\ request.op = "all"
      /\ source.kind = "csv"
      /\ per_page >= 1
      /\ page > Ceil(Len(Table), per_page)) =>
       /\ response.kind = "success"
       /\ response.status = 200
       /\ response.body.data = <<>>
       /\ response.body.total_records = Len(Table)
       /\ response.body.total_pages = Ceil(Len(Table), per_page)

\* page 3 of a three-row table read two rows at a time
C4_Witness ==
  /\ ~Idle
  /\ request.op = "all"
  /\ request.page = Num(3)
  /\ request.per_page = Num(2)
  /\ Len(Table) = 3
  /\ response.kind = "success"
  /\ response.body.data = <<>>
  /\ response.body.total_pages = 2

\* ---------------------------------------------------------------- C5
\* the rows of one diet type
RowsOf(rows, k) == {i \in 1..Len(rows) : rows[i].Diet_type = k}

RECURSIVE SumOver(_, _)
SumOver(val, S) ==
  IF S = {} THEN 0
  ELSE LET i == CHOOSE x \in S : TRUE
       IN val[i] + SumOver(val, S \ {i})

\* mean of a column over a diet type's non-blank cells exceeds grams
ExceedsMean(cells, S, grams) ==
  LET V == {i \in S : ~IsNaN(cells[i])}
  IN V # {} /\ SumOver(cells, V) > grams * 100 * Cardinality(V)

HighProtein(rows, k) ==
  ExceedsMean([i \in 1..Len(rows) |-> rows[i].Protein], RowsOf(rows, k), 90)

HighCarb(rows, k) ==
  ExceedsMean([i \in 1..Len(rows) |-> rows[i].Carbs], RowsOf(rows, k), 200)

\* C5: a diet type is in high_protein iff its mean protein is strictly
\* above 90 and in high_carb iff its mean carbs is strictly above 200, the
\* two tests independent: a mean of exactly 90 (200) is not high, and a
\* diet type above both thresholds is in both buckets.
C5_ThresholdsStrictAndIndependent ==
  Answered("clusters") =>
    \A k \in GroupKeys(Table) :
      /\ k \in Elems(response.body.high_protein_cluster) <=> HighProtein(Table, k)
      /\ k \in Elems(response.body.high_carb_cluster) <=> HighCarb(Table, k)

\* 'ke' with a mean protein of exactly 90 is not high_protein while 'Ke',
\* above both thresholds, is in both buckets
C5_Witness ==
  /\ Answered("clusters")
  /\ Table = << Row(<<"k", "e">>, "a", 10000, 2000, 1000),
                Row(<<"k", "e">>, "b", 8000, 20000, 3002),
                Row(<<"K", "e">>, "c", 9004, 25004, 1000) >>
  /\ response.body.high_protein_cluster = << <<"K", "e">> >>
  /\ response.body.high_carb_cluster = << <<"K", "e">> >>

\* ---------------------------------------------------------------- C6
\* C6: every diet type of the summary is in at least one of the three
\* buckets, and balanced is exactly the set of diet types that are in
\* neither high_protein nor high_carb.
C6_BucketsCoverAndBalancedIsComplement ==
  Answered("clusters") =>
    LET hp == Elems(response.body.high_protein_cluster)
        hc == Elems(response.body.high_carb_cluster)
        bal == Elems(response.body.balanced_cluster)
    IN /\ hp \cup hc \cup bal = GroupKeys(Table)
       /\ bal = GroupKeys(Table) \ (hp \cup hc)

\* three diet types, one per kind of membership
C6_Witness ==
  /\ Answered("clusters")
  /\ response.body.balanced_cluster # <<>>
  /\ response.body.high_protein_cluster # <<>>
  /\ response.body.high_carb_cluster # <<>>
  /\ response.body.high_carb_cluster # response.body.high_protein_cluster

\* ---------------------------------------------------------------- C7
\* C7 as stated: no diet type is in more than one of the three buckets.
C7_BucketsMutuallyExclusive ==
  Answered("clusters") =>
    LET hp == Elems(response.body.high_protein_cluster)
        hc == Elems(response.body.high_carb_cluster)
        bal == Elems(response.body.balanced_cluster)
    IN hp \cap hc = {} /\ hp \cap bal = {} /\ hc \cap bal = {}

NoDuplicates(seq) == Cardinality(Elems(seq)) = Len(seq)

\* C7 amended: balanced shares no diet type with high_protein or high_carb
\* and no bucket lists a diet type twice, while high_protein and high_carb
\* overlap in exactly the diet types whose means exceed both thresholds.
C7_OnlyBalancedIsExclusive ==
  Answered("clusters") =>
    LET hp == Elems(response.body.high_protein_cluster)
        hc == Elems(response.body.high_carb_cluster)
        bal == Elems(response.body.balanced_cluster)
    IN /\ bal \cap (hp \cup hc) = {}
       /\ NoDuplicates(response.body.high_protein_cluster)
       /\ NoDuplicates(response.body.high_carb_cluster)
       /\ NoDuplicates(response.body.balanced_cluster)
       /\ hp \cap hc =
            {k \in GroupKeys(Table) : HighProtein(Table, k) /\ HighCarb(Table, k)}

\* a diet type listed in both high_protein and high_carb next to a
\* balanced one
C7_Witness ==
  /\ Answered("clusters")
  /\ \E k \in GroupKeys(Table) :
       /\ k \in Elems(response.body.high_protein_cluster)
       /\ k \in Elems(response.body.high_carb_cluster)
  /\ response.body.balanced_cluster # <<>>

\* ---------------------------------------------------------------- C8
\* the same letter in either case
SameLetter(a, b) ==
  a = b \/ {a, b} \in {{"k", "K"}, {"e", "E"}, {"v", "V"}}

\* equal strings up to letter case
EqualIgnoringCase(s, t) ==
  Len(s) = Len(t) /\ \A i \in 1..Len(s) : SameLetter(s[i], t[i])

\* the positions of the rows a filter keeps; no filter keeps every row
Kept(rows, diet) ==
  IF Truthy(diet)
  THEN {i \in 1..Len(rows) : EqualIgnoringCase(rows[i].Diet_type, diet.val)}
  ELSE 1..Len(rows)

\* the j-th smallest position of S
NthOf(S, j) == CHOOSE i \in S : Cardinality({x \in S : x < i}) = j - 1

HalfUp(x) == IF IsNaN(x) THEN NaN ELSE 10 * ((x + 5) \div 10)

\* a display column the header lacks shows its literal default
RecipeEntry(row) ==
  [Recipe_name |-> IF "Recipe_name" \in source.columns THEN row.Recipe_name
                   ELSE "Unknown",
   Diet_type |-> IF "Diet_type" \in source.columns THEN row.Diet_type
                 ELSE <<"N", "/", "A">>,
   Protein |-> HalfUp(row.Protein),
   Carbs |-> HalfUp(row.Carbs),
   Fat |-> HalfUp(row.Fat)]

\* C8: the recipes filter keeps a row iff its diet_type equals the filter
\* after lowercasing both sides (the whole string, never a prefix or a
\* substring), and two filter values that differ only in letter case give
\* identical recipe lists and identical statistics.
C8_FilterIsCaseInsensitiveExact ==
  (Answered("recipes") /\ Truthy(request.diet_type)) =>
    LET kept == Kept(Table, request.diet_type)
        limit == Given(request.limit, DefaultRecipesLimit)
        recipes == response.body.recipes
    IN /\ response.body.statistics.total_recipes = Cardinality(kept)
       /\ Len(recipes) <= Cardinality(kept)
       /\ \A j \in 1..Len(recipes) :
            recipes[j] = RecipeEntry(Table[NthOf(kept, j)])
       /\ \A g \in FilterStrings :
            EqualIgnoringCase(g, request.diet_type.val)
              => recipes_body_of_frame(Table, Str(g), limit) = response.body

\* the filter "KE" against rows labelled "ke", "Ke" and "v": the two
\* spellings are kept, the other label is not
C8_Witness ==
  /\ Answered("recipes")
  /\ request.diet_type = Str(<<"K", "E">>)
  /\ Len(Table) = 3
  /\ Table[1].Diet_type = <<"v">>
  /\ Table[2].Diet_type = <<"k", "e">>
  /\ Table[3].Diet_type = <<"K", "e">>
  /\ response.body.statistics.total_recipes = 2
  /\ response.body.count = 2

\* ---------------------------------------------------------------- C9
\* C9: for every table, filter and limit the recipes operation returns the
\* first `limit` rows of the filtered set in row order (none for a limit
\* below 1, count = min(limit, size of the filtered set) otherwise), and
\* total_recipes = the size of the whole filtered set whatever the limit.
C9_FirstLimitRowsOfFilteredSet ==
  Answered("recipes") =>
    LET limit == Given(request.limit, DefaultRecipesLimit)
        kept == Kept(Table, request.diet_type)
        k == Min(limit, Cardinality(kept))
    IN /\ response.body.recipes =
            [j \in 1..k |-> RecipeEntry(Table[NthOf(kept, j)])]
       /\ response.body.count = Len(response.body.recipes)
       /\ limit >= 0 => response.body.count = k
       /\ response.body.statistics.total_recipes = Cardinality(kept)

\* --------------------------------------------------------------- C10
\* C10: whenever the source table cannot be loaded, every data operation
\* answers with an {error: message} payload and a non-2xx status and no
\* dataset-derived data; no success payload comes from an unloaded table.
C10_UnloadedSourceGivesErrorPayload ==
  (~Idle /\ source.kind # "csv") =>
    /\ response.kind = "error"
    /\ response.status \notin 200..299
    /\ DOMAIN response.body = {"error"}

\* the paginated read of the Flask backend against a missing CSV file
C10_Witness ==
  /\ source.kind = "absent"
  /\ request.op = "all"
  /\ request.app = "flask"
  /\ response = Error("Failed to load data")

\* --------------------------------------------------------------- C11
\* C11: a source whose header lacks one of Diet_type, Recipe_name,
\* Protein(g), Carbs(g), Fat(g) fails at load time with a schema error, so
\* every operation on it answers with the load error and none is answered
\* from a table that misses a required column.
C11_MissingColumnFailsAtLoad ==
  (~Idle /\ source.kind = "csv" /\ source.columns # Columns) =>
    /\ response.kind = "error"
    /\ response.body.error \in
         {"Failed to load data", "Failed to load data from blob storage"}

\* --------------------------------------------------------------- C12
\* C12: a source with a header and no data rows fails to load with an
\* empty-data error: every operation on it answers with the load error and
\* no operation reports success with total_records = 0.
C12_HeaderOnlyFailsAtLoad ==
  (~Idle /\ source.kind = "csv" /\ source.columns = Columns
     /\ source.rows = <<>>) =>
    /\ response.kind = "error"
    /\ response.body.error \in
         {"Failed to load data", "Failed to load data from blob storage"}

\* --------------------------------------------------------------- C13
\* a numeric query parameter that is not an integer, or a page size of 0
InvalidParameter ==
  \/ request.limit.tag = "bad"
  \/ request.page.tag = "bad"
  \/ request.per_page.tag = "bad"
  \/ request.per_page = Num(0)

\* C13: source not found, required column missing, empty data and a
\* malformed or out-of-domain numeric query parameter are each answered
\* with a structured {error} payload and an unsuccessful status; no data
\* operation ends in an unhandled exception.
C13_EveryErrorIsStructured ==
  ~Idle =>
    /\ response.kind # "unhandled"
    /\ (\/ source.kind # "csv"
        \/ source.columns # Columns
        \/ source.rows = <<>>
        \/ InvalidParameter) =>
         /\ response.kind = "error"
         /\ response.status \notin 200..299
         /\ DOMAIN response.body = {"error"}

\* --------------------------------------------------------------- C14
\* C14: in the top-protein operation an absent limit is 5, and a limit
\* that is not a positive integer (non-numeric, zero or negative) is
\* answered with an invalid-parameter error, never clamped, defaulted or
\* used to truncate the result.
C14_TopLimitDefaultsAndIsValidated ==
  (~Idle /\ request.op = "top-protein"
     /\ source.kind = "csv" /\ source.columns = Columns) =>
    /\ request.limit.tag = "absent" =>
         /\ response.kind = "success"
         /\ response.body.count = Min(5, Len(Table))
    /\ (request.limit.tag = "bad"
          \/ (request.limit.tag = "int" /\ request.limit.val <= 0)) =>
         response.kind = "error"

\* --------------------------------------------------------------- C16
\* the diet types of a summary, in the order in which it lists them
ListedKeys(data) == [i \in 1..Len(data) |-> data[i].Diet_type]

\* Unicode code point of a character of the sample diet types
CodePoint(c) ==
  CASE c = "E" -> 69
    [] c = "K" -> 75
    [] c = "V" -> 86
    [] c = "e" -> 101
    [] c = "k" -> 107
    [] c = "v" -> 118

\* s sorts strictly before t, code point by code point
RECURSIVE CodeLess(_, _)
CodeLess(s, t) ==
  IF t = <<>> THEN FALSE
  ELSE IF s = <<>> THEN TRUE
  ELSE \/ CodePoint(Head(s)) < CodePoint(Head(t))
       \/ /\ Head(s) = Head(t)
          /\ CodeLess(Tail(s), Tail(t))

\* C16 (as stated): the summary lists the diet-type groups in the order in
\* which each diet_type value first appears in the source table, one entry
\* per distinct value.
C16_GroupsInFirstAppearanceOrder ==
  Answered("summary") =>
    ListedKeys(response.body.data) = FirstAppearance(Table)

\* C16 (amended): the summary lists exactly the distinct non-blank
\* diet_type values of the table, compared by exact string equality, one
\* entry each, in strictly ascending code-point order of the value.
C16_GroupsInAscendingKeyOrder ==
  Answered("summary") =>
    LET keys == ListedKeys(response.body.data)
    IN /\ {keys[i] : i \in 1..Len(keys)}
            = {Table[i].Diet_type : i \in 1..Len(Table)} \ {Blank}
       /\ \A i, j \in 1..Len(keys) : i < j => CodeLess(keys[i], keys[j])

\* a summary of a table that introduces "ke" before "Ke" and lists "Ke" first
C16_Witness ==
  /\ Answered("summary")
  /\ Len(Table) >= 2
  /\ Table[1].Diet_type = <<"k", "e">>
  /\ Table[2].Diet_type = <<"K", "e">>
  /\ ListedKeys(response.body.data) = <<<<"K", "e">>, <<"k", "e">>>>

\* --------------------------------------------------------------- C15
\* C15: no aggregate is computed over blank numeric cells: each per-diet
\* mean of the summary, and each statistic of the recipes operation, equals
\* (to 2 decimals) the mean over the same rows after every blank cell was
\* replaced by its column's mean over the cells that have a value.
C15_AggregatesOverImputedCells ==
  /\ Answered("summary") =>
       \A g \in 1..Len(response.body.data) :
         LET entry == response.body.data[g]
             grp == Select(Table, RowsOf(Table, entry.Diet_type))
         IN /\ Round2(entry.Protein)
                 = Round2(mean_after_fillna(Table, grp, "Protein(g)"))
            /\ Round2(entry.Carbs)
                 = Round2(mean_after_fillna(Table, grp, "Carbs(g)"))
            /\ Round2(entry.Fat)
                 = Round2(mean_after_fillna(Table, grp, "Fat(g)"))
  /\ Answered("recipes") =>
       LET kept == Select(Table, Kept(Table, request.diet_type))
           stats == response.body.statistics
       IN /\ stats.avg_protein
               = Round2(mean_after_fillna(Table, kept, "Protein(g)"))
          /\ stats.avg_carbs
               = Round2(mean_after_fillna(Table, kept, "Carbs(g)"))
          /\ stats.avg_fat
               = Round2(mean_after_fillna(Table, kept, "Fat(g)"))

\* --------------------------------------------------------------- C17
\* the per-diet means of an aggregate, rounded to 2 decimals
Rounded(avg_macros) ==
  {[Diet_type |-> avg_macros[g].Diet_type,
    Protein |-> Round2(avg_macros[g].Protein),
    Carbs |-> Round2(avg_macros[g].Carbs),
    Fat |-> Round2(avg_macros[g].Fat)] : g \in 1..Len(avg_macros)}

\* C17: once the snapshot was written from a table that has at least one
\* diet type (blank macronutrient cells allowed), loading its
\* average_macros succeeds and gives the same diet types with the same
\* protein/carbs/fat means, to 2 decimals, as the offline analysis computes
\* directly from that table. (Of a table without any diet type neither
\* path produces a summary.)
C17_SnapshotRoundTrip ==
  (lambda_status = "success" /\ GroupKeys(source.rows) # {}) =>
    LET loaded == load_avg_from_json(snapshot)
    IN /\ loaded.exc = "none"
       /\ Rounded(loaded.avg_macros) = Rounded(main_avg_macros(source.rows))

\* --------------------------------------------------------------- C18
\* a snapshot load_avg_from_json accepts
Usable(json) ==
  json.kind = "json" /\ json.has_average_macros /\ json.average_macros # <<>>

AveragePlots == {"avg_protein_by_diet_type.png", "avg_macros_heatmap.png"}

\* C18: in an analysis run the snapshot is consulted only after the CSV
\* was found missing, never when the CSV exists; a run that found the CSV
\* missing and got past the fallback either read a snapshot with a
\* non-empty average_macros or ended fatally, and a fatal run has produced
\* no plot; a run that took the fallback never produces the scatter plot
\* and, when it finishes, has produced exactly the two average-based plots.
C18_FallbackOnlyWhenCsvMissing ==
  /\ run.json_consulted => run.csv = "missing"
  /\ (run.csv = "missing" /\ run.pc \notin {"start", "except"}) =>
       /\ run.json_consulted
       /\ run.pc = "fatal" \/ Usable(snapshot)
  /\ run.pc = "fatal" => run.plots = {}
  /\ run.json_consulted =>
       /\ "top_protein_recipes_scatter.png" \notin run.plots
       /\ run.pc = "done" => run.plots = AveragePlots

\* a finished run that found no CSV and drew the two average plots from
\* the snapshot the processing function had written
C18_Witness ==
  /\ run.pc = "done"
  /\ run.csv = "missing"
  /\ run.json_consulted
  /\ lambda_status = "success"
  /\ run.avg_macros # <<>>
  /\ run.plots = AveragePlots

\* a run that found no CSV and no usable snapshot, and ended fatally
C18_FatalWitness ==
  /\ run.pc = "fatal"
  /\ run.csv = "missing"
  /\ run.error \in {"FileNotFoundError", "ValueError"}
  /\ ~Usable(snapshot)

====
